---- MODULE Spec2Model ----
(***************************************************************************)
(* DataSyncCompare: reconciliation of an old and a new snapshot of a       *)
(* table (core_analysis.py).  The six core functions are modelled as       *)
(* actions over two immutable input DataFrames; the pandas operations they *)
(* use (rename, merge, duplicated, boolean masks, fillna/astype(str)) are  *)
(* modelled as operators.                                                  *)
(***************************************************************************)
EXTENDS Integers, Sequences, FiniteSets, TLC

VARIABLES
    df_new,     \* df_new_filtered: the new snapshot, with its Primary_Key column
    df_old,     \* df_old_filtered: the old snapshot, with its Primary_Key column
    call,       \* the core function called last, with its side selector if it has one
    result,     \* what that call returned, or the exception it raised
    tables_dict,    \* main: the <<new, old>> Datasets of the tables, in dictionary order
    table_name,     \* main: the table the loop is at, as its place in tables_dict
    pc,             \* main: the statement the run is at
    locals,         \* main: the views computed so far for the table
    files           \* main: the Excel files written so far, in order

main_vars == <<tables_dict, table_name, pc, locals, files>>
vars == <<df_new, df_old, call, result, tables_dict, table_name, pc, locals, files>>

(***************************************************************************)
(* Bounds of the model.                                                    *)
(***************************************************************************)
MaxCols == 2    \* non-key columns per DataFrame
MaxRows == 2    \* rows per DataFrame
MaxCells == 4   \* non-key cells over both DataFrames together
MaxTables == 3  \* tables of one run of main

(***************************************************************************)
(* Values.  A cell holds a number or is missing (NaN / None).  A column    *)
(* name is a sequence of text pieces, so that appending a suffix and       *)
(* testing for it are operations on the name.                              *)
(***************************************************************************)
NaN == [null |-> TRUE]
Num(n) == [null |-> FALSE, v |-> n]
Numbers == {1, 2}
Values == {NaN} \cup {Num(n) : n \in Numbers}
\* the Primary_Key values, in their sort order; the drawn inputs use the first ones
Keys == <<"A", "B", "C">>
InputKeys == {"A", "B"}
Primary_Key == <<"Primary_Key">>

isnull(x) == x.null
notnull(x) == ~x.null

\* Series == Series, elementwise: a missing value equals nothing, itself included
Eq(a, b) == notnull(a) /\ notnull(b) /\ a = b

\* mutant: the both-null term is dropped
null_aware_match_mut(a, b) == Eq(a, b)

\* (new == old) | (new.isnull() & old.isnull())
null_aware_match(a, b) == Eq(a, b) \/ (isnull(a) /\ isnull(b))

Range(s) == {s[i] : i \in 1..Len(s)}
Indices(s) == [i \in 1..Len(s) |-> i]
\* number of True entries of a boolean mask
Sum(mask) == Cardinality({i \in 1..Len(mask) : mask[i]})
\* df[mask]: the positions a boolean mask keeps, in order
Where(mask) == SelectSeq(Indices(mask), LAMBDA i : mask[i])

RECURSIVE Concat(_)
Concat(ss) == IF ss = <<>> THEN <<>> ELSE Head(ss) \o Concat(Tail(ss))

(***************************************************************************)
(* DataFrames: ordered column names, a dtype per column and rows of cells. *)
(***************************************************************************)
ColIndex(df, c) == CHOOSE i \in 1..Len(df.cols) : df.cols[i] = c
HasCol(df, c) == c \in Range(df.cols)
Column(df, c) == [r \in 1..Len(df.rows) |-> df.rows[r][ColIndex(df, c)]]
Dtype(df, c) == df.dtypes[ColIndex(df, c)]

\* df.rename(columns=rename_map): a copy with the mapped names replaced
Rename(df, rename_map) ==
    [df EXCEPT !.cols = [i \in 1..Len(df.cols) |->
        IF df.cols[i] \in DOMAIN rename_map THEN rename_map[df.cols[i]] ELSE df.cols[i]]]

\* df[[c1, c2, ...]]
Project(df, cs) ==
    [cols |-> cs,
     dtypes |-> [i \in 1..Len(cs) |-> Dtype(df, cs[i])],
     rows |-> [r \in 1..Len(df.rows) |-> [i \in 1..Len(cs) |-> df.rows[r][ColIndex(df, cs[i])]]]]

\* mutant: keep='first', the first copy of a key is not marked
Duplicated_mut(df) ==
    LET k == ColIndex(df, Primary_Key)
    IN [r \in 1..Len(df.rows) |->
          \E q \in 1..(r - 1) : df.rows[q][k] = df.rows[r][k]]

\* df.duplicated(subset='Primary_Key', keep=False)
Duplicated(df) ==
    LET k == ColIndex(df, Primary_Key)
    IN [r \in 1..Len(df.rows) |->
          \E q \in 1..Len(df.rows) : q # r /\ df.rows[q][k] = df.rows[r][k]]

\* rows of df at the given positions
Take(df, idx) == [df EXCEPT !.rows = [n \in 1..Len(idx) |-> df.rows[idx[n]]]]

(***************************************************************************)
(* pandas merge on Primary_Key.  A pair <<l, r>> names the left and right  *)
(* row joined into one output row; 0 stands for the absent side.           *)
(***************************************************************************)
RowsWithKey(df, k) ==
    LET kc == ColIndex(df, Primary_Key)
    IN SelectSeq(Indices(df.rows), LAMBDA r : df.rows[r][kc] = k)

Cross(ls, rs) ==
    [n \in 1..(Len(ls) * Len(rs)) |->
        <<ls[((n - 1) \div Len(rs)) + 1], rs[((n - 1) % Len(rs)) + 1]>>]

\* mutant: a key's rows are paired one to one instead of cross-joined
OuterPairs_mut(left, right) ==
    Concat([n \in 1..Len(Keys) |->
        LET ls == RowsWithKey(left, Keys[n])
            rs == RowsWithKey(right, Keys[n])
            m == IF Len(ls) < Len(rs) THEN Len(ls) ELSE Len(rs)
        IN IF ls # <<>> /\ rs # <<>> THEN [i \in 1..m |-> <<ls[i], rs[i]>>]
           ELSE IF ls # <<>> THEN [i \in 1..Len(ls) |-> <<ls[i], 0>>]
           ELSE [j \in 1..Len(rs) |-> <<0, rs[j]>>]])

\* how='outer': keys in sorted order, a key's rows cross-joined
OuterPairs(left, right) ==
    Concat([n \in 1..Len(Keys) |->
        LET ls == RowsWithKey(left, Keys[n])
            rs == RowsWithKey(right, Keys[n])
        IN IF ls # <<>> /\ rs # <<>> THEN Cross(ls, rs)
           ELSE IF ls # <<>> THEN [i \in 1..Len(ls) |-> <<ls[i], 0>>]
           ELSE [j \in 1..Len(rs) |-> <<0, rs[j]>>]])

\* mutant: how='inner', the left rows without a partner are dropped
LeftPairs_mut(left, right) ==
    Concat([l \in 1..Len(left.rows) |->
        Cross(<<l>>, RowsWithKey(right, left.rows[l][ColIndex(left, Primary_Key)]))])

\* how='left': every left row, in the left order
LeftPairs(left, right) ==
    Concat([l \in 1..Len(left.rows) |->
        LET rs == RowsWithKey(right, left.rows[l][ColIndex(left, Primary_Key)])
        IN IF rs # <<>> THEN Cross(<<l>>, rs) ELSE <<<<l, 0>>>>])

\* mutant: how='left', the left rows without a partner are kept
InnerPairs_mut(left, right) == LeftPairs(left, right)

\* how='inner': the left rows that have a partner, in the left order
InnerPairs(left, right) ==
    Concat([l \in 1..Len(left.rows) |->
        Cross(<<l>>, RowsWithKey(right, left.rows[l][ColIndex(left, Primary_Key)]))])

\* mutant: the two one-sided tags change places
Indicator_mut(p) == IF p[2] = 0 THEN "right_only" ELSE IF p[1] = 0 THEN "left_only" ELSE "both"

\* indicator=True: the _merge tag of a joined row
Indicator(p) == IF p[2] = 0 THEN "left_only" ELSE IF p[1] = 0 THEN "right_only" ELSE "both"

Merge(left, right, how, suffixes) ==
    LET lk == ColIndex(left, Primary_Key)
        rk == ColIndex(right, Primary_Key)
        overlap(c) == c # Primary_Key /\ HasCol(left, c) /\ HasCol(right, c)
        rIdx == SelectSeq(Indices(right.cols), LAMBDA j : j # rk)
        pairs == IF how = "outer" THEN OuterPairs(left, right)
                 ELSE IF how = "left" THEN LeftPairs(left, right)
                 ELSE InnerPairs(left, right)
        lcell(p, i) == IF p[1] # 0 THEN left.rows[p[1]][i]
                       ELSE IF i = lk THEN right.rows[p[2]][rk] ELSE NaN
        rcell(p, j) == IF p[2] # 0 THEN right.rows[p[2]][rIdx[j]] ELSE NaN
        \* an integer column turns into a float column when the join leaves holes in it
        ldtype(i) == IF i # lk /\ \E n \in 1..Len(pairs) : pairs[n][1] = 0
                     THEN "float64" ELSE left.dtypes[i]
        rdtype(j) == IF \E n \in 1..Len(pairs) : pairs[n][2] = 0
                     THEN "float64" ELSE right.dtypes[rIdx[j]]
    IN [cols |-> [i \in 1..Len(left.cols) |->
                    IF overlap(left.cols[i]) THEN Append(left.cols[i], suffixes[1])
                    ELSE left.cols[i]]
                 \o [j \in 1..Len(rIdx) |->
                    IF overlap(right.cols[rIdx[j]]) THEN Append(right.cols[rIdx[j]], suffixes[2])
                    ELSE right.cols[rIdx[j]]],
        dtypes |-> [i \in 1..Len(left.cols) |-> ldtype(i)]
                   \o [j \in 1..Len(rIdx) |-> rdtype(j)],
        rows |-> [n \in 1..Len(pairs) |->
                    [i \in 1..Len(left.cols) |-> lcell(pairs[n], i)]
                    \o [j \in 1..Len(rIdx) |-> rcell(pairs[n], j)]],
        _merge |-> [n \in 1..Len(pairs) |-> Indicator(pairs[n])]]

(***************************************************************************)
(* Column alignment shared by the core functions.                          *)
(***************************************************************************)
\* [c for c in df.columns if c != 'Primary_Key']
non_key_cols(df) == SelectSeq(df.cols, LAMBDA c : c # Primary_Key)

\* mutant: the old columns are paired with the new ones from the far end
rename_map_mut(olds, news) ==
    LET n == IF Len(olds) < Len(news) THEN Len(olds) ELSE Len(news)
    IN [c \in {olds[i] : i \in 1..n} |->
          news[n + 1 - (CHOOSE i \in 1..n : olds[i] = c)]]

\* {old_col: new_col for old_col, new_col in zip(non_key_cols_old, non_key_cols_new)}
rename_map(olds, news) ==
    LET n == IF Len(olds) < Len(news) THEN Len(olds) ELSE Len(news)
    IN [c \in {olds[i] : i \in 1..n} |->
          news[CHOOSE i \in 1..n : olds[i] = c /\ \A j \in (i + 1)..n : olds[j] # c]]

\* mutant: rename(columns=rename_map, inplace=True) changes the caller's DataFrame
after_rename_mut(df, names) == Rename(df, names)

\* df after df.rename(columns=rename_map): the renamed DataFrame is a copy
after_rename(df, names) == df

\* df_old_filtered after a call that aligns it with df_new_filtered
old_after_call(new, old) ==
    IF Len(non_key_cols(new)) # Len(non_key_cols(old)) THEN old
    ELSE after_rename(old, rename_map(non_key_cols(old), non_key_cols(new)))

ValueError == [status |-> "ValueError"]
Ok(v) == [status |-> "ok", value |-> v]

\* the merge every outer-join view performs on the aligned DataFrames
merged_outer(new, old) ==
    Merge(new, Rename(old, rename_map(non_key_cols(old), non_key_cols(new))),
          "outer", <<"_new", "_old">>)

(***************************************************************************)
(* compare_primary_keys_and_rows_by_position                               *)
(***************************************************************************)
\* mutant: the records present only in the old table are left out of the total
mismatch_total_mut(left_only_count, right_only_count, both_mismatch_count) ==
    left_only_count + both_mismatch_count

\* mismatch_record_count = left_only_count + right_only_count + both_mismatch_count
mismatch_total(left_only_count, right_only_count, both_mismatch_count) ==
    left_only_count + right_only_count + both_mismatch_count

metrics(new, old) ==
    LET non_key_cols_new == non_key_cols(new)
        non_key_cols_old == non_key_cols(old)
        df_old_renamed == Rename(old, rename_map(non_key_cols_old, non_key_cols_new))
        merged == merged_outer(new, old)
        n == Len(merged.rows)
        both_mask == [r \in 1..n |-> merged._merge[r] = "both"]
        col_match(c) ==
            LET col_new == Append(c, "_new")
                col_old == Append(c, "_old")
            IN IF HasCol(merged, col_new) /\ HasCol(merged, col_old)
               THEN [r \in 1..n |-> Eq(Column(merged, col_new)[r], Column(merged, col_old)[r])]
               ELSE [r \in 1..n |-> FALSE]
        full_match_mask == [r \in 1..n |->
            \A i \in 1..Len(non_key_cols_new) : col_match(non_key_cols_new[i])[r]]
        left_only_count == Sum([r \in 1..n |-> merged._merge[r] = "left_only"])
        right_only_count == Sum([r \in 1..n |-> merged._merge[r] = "right_only"])
        both_mismatch_count == Sum([r \in 1..n |-> both_mask[r] /\ ~full_match_mask[r]])
    IN IF Len(non_key_cols_new) # Len(non_key_cols_old) THEN ValueError
       ELSE Ok([old_record_count |-> Len(df_old_renamed.rows),
                new_record_count |-> Len(new.rows),
                old_extra_records |-> right_only_count,
                new_extra_records |-> left_only_count,
                old_duplicates |-> Sum(Duplicated(df_old_renamed)),
                new_duplicates |-> Sum(Duplicated(new)),
                match_record_count |-> Sum([r \in 1..n |-> both_mask[r] /\ full_match_mask[r]]),
                mismatch_record_count |->
                    mismatch_total(left_only_count, right_only_count, both_mismatch_count)])

compare_primary_keys_and_rows_by_position ==
    /\ call' = <<"compare_primary_keys_and_rows_by_position">>
    /\ result' = metrics(df_new, df_old)
    /\ df_old' = old_after_call(df_new, df_old)
    /\ UNCHANGED df_new
    /\ UNCHANGED main_vars

(***************************************************************************)
(* generate_column_summary                                                 *)
(***************************************************************************)
\* the four null patterns of a <<new, old>> pair of cells
is_not_null_not_null(a, b) == notnull(a) /\ notnull(b)
is_not_null_null(a, b) == notnull(a) /\ isnull(b)
\* mutant: the pattern of the line above, copied without swapping the sides
is_null_not_null_mut(a, b) == notnull(a) /\ isnull(b)
is_null_not_null(a, b) == isnull(a) /\ notnull(b)
is_null_null(a, b) == isnull(a) /\ isnull(b)

\* mutant: the both-null cells are looked for among the mismatched rows
null_null_rows_mut(merged_rows, mismatched_rows) == mismatched_rows

\* the rows the Null - Null tally runs over: merged, not mismatched_rows
null_null_rows(merged_rows, mismatched_rows) == merged_rows

column_summary_row(merged, c) ==
    LET col_new == Append(c, "_new")
        col_old == Append(c, "_old")
        n == Len(merged.rows)
        vnew(r) == Column(merged, col_new)[r]
        vold(r) == Column(merged, col_old)[r]
        matches == [r \in 1..n |-> null_aware_match(vnew(r), vold(r))]
        mismatches == [r \in 1..n |-> ~matches[r]]
        \* merged[mismatches]
        mismatched_rows == Where(mismatches)
        m == Len(mismatched_rows)
        not_null_not_null ==
            [q \in 1..m |-> is_not_null_not_null(vnew(mismatched_rows[q]), vold(mismatched_rows[q]))]
        not_null_null ==
            [q \in 1..m |-> is_not_null_null(vnew(mismatched_rows[q]), vold(mismatched_rows[q]))]
        null_not_null ==
            [q \in 1..m |-> is_null_not_null(vnew(mismatched_rows[q]), vold(mismatched_rows[q]))]
        tallied == null_null_rows(Indices(merged.rows), mismatched_rows)
        null_null == [q \in 1..Len(tallied) |-> is_null_null(vnew(tallied[q]), vold(tallied[q]))]
    IN IF ~HasCol(merged, col_new) \/ ~HasCol(merged, col_old)
       THEN [column_name |-> c, matches_count |-> 0, mismatches_count |-> 0,
             not_null_not_null_count |-> 0, not_null_null_count |-> 0,
             null_not_null_count |-> 0, null_null_count |-> 0]
       ELSE [column_name |-> c,
             matches_count |-> Sum(matches),
             mismatches_count |-> Sum(mismatches),
             not_null_not_null_count |-> Sum(not_null_not_null),
             not_null_null_count |-> Sum(not_null_null),
             null_not_null_count |-> Sum(null_not_null),
             null_null_count |-> Sum(null_null)]

column_summary(new, old) ==
    LET non_key_cols_new == non_key_cols(new)
        non_key_cols_old == non_key_cols(old)
        df_old_renamed == Rename(old, rename_map(non_key_cols_old, non_key_cols_new))
        merged == Merge(new, df_old_renamed, "outer", <<"_new", "_old">>)
    IN IF Len(non_key_cols_new) # Len(non_key_cols_old) THEN ValueError
       ELSE Ok([i \in 1..Len(non_key_cols_new) |->
                  column_summary_row(merged, non_key_cols_new[i])])

generate_column_summary ==
    /\ call' = <<"generate_column_summary">>
    /\ result' = column_summary(df_new, df_old)
    /\ df_old' = old_after_call(df_new, df_old)
    /\ UNCHANGED df_new
    /\ UNCHANGED main_vars

(***************************************************************************)
(* get_matching_records                                                    *)
(***************************************************************************)
endswith(name, suffix) == name # <<>> /\ name[Len(name)] = suffix
\* x.replace('_new', ''): every occurrence goes
replace_new(name) == SelectSeq(name, LAMBDA t : t # "_new")

matching_records(new, old) ==
    LET non_key_cols_new == non_key_cols(new)
        non_key_cols_old == non_key_cols(old)
        df_old_renamed == Rename(old, rename_map(non_key_cols_old, non_key_cols_new))
        merged == Merge(new, df_old_renamed, "inner", <<"_new", "_old">>)
        n == Len(merged.rows)
        col_match(c) ==
            LET col_new == Append(c, "_new")
                col_old == Append(c, "_old")
            IN IF HasCol(merged, col_new) /\ HasCol(merged, col_old)
               THEN [r \in 1..n |->
                       null_aware_match(Column(merged, col_new)[r], Column(merged, col_old)[r])]
               ELSE [r \in 1..n |-> FALSE]
        full_match_mask == [r \in 1..n |->
            \A i \in 1..Len(non_key_cols_new) : col_match(non_key_cols_new[i])[r]]
        matched_records == Where(full_match_mask)
        columns_to_keep ==
            SelectSeq(Indices(merged.cols),
                      LAMBDA i : endswith(merged.cols[i], "_new") \/ merged.cols[i] = Primary_Key)
    IN IF Len(non_key_cols_new) # Len(non_key_cols_old) THEN ValueError
       ELSE Ok([cols |-> [j \in 1..Len(columns_to_keep) |->
                            LET x == merged.cols[columns_to_keep[j]]
                            IN IF endswith(x, "_new") THEN replace_new(x) ELSE x],
                rows |-> [q \in 1..Len(matched_records) |->
                            [j \in 1..Len(columns_to_keep) |->
                                merged.rows[matched_records[q]][columns_to_keep[j]]]]])

get_matching_records ==
    /\ call' = <<"get_matching_records">>
    /\ result' = matching_records(df_new, df_old)
    /\ df_old' = old_after_call(df_new, df_old)
    /\ UNCHANGED df_new
    /\ UNCHANGED main_vars

(***************************************************************************)
(* Text of a cell: series.fillna('null').astype(str).  A number of a float *)
(* column prints with its fraction, a number of an integer column without. *)
(***************************************************************************)
astype_str(dtype, x) ==
    IF isnull(x) THEN "null"
    ELSE IF dtype = "float64" THEN ToString(x.v) \o ".0"
    ELSE ToString(x.v)

\* a cell holding text
Str(s) == [null |-> FALSE, s |-> s]

(***************************************************************************)
(* get_detailed_mismatched_records                                         *)
(***************************************************************************)
\* mutant: the old and the new text change places
mismatch_cell_mut(sold, snew) == Str("O: " \o snew \o ", N: " \o sold)
\* "O: " + old + ", N: " + new
mismatch_cell(sold, snew) == Str("O: " \o sold \o ", N: " \o snew)
\* mutant: the two sides are swapped
only_new_cell_mut(snew) == Str("O: " \o snew \o ", N: null")
\* "O: null, N: " + new
only_new_cell(snew) == Str("O: null, N: " \o snew)
\* "O: " + old + ", N: null"
only_old_cell(sold) == Str("O: " \o sold \o ", N: null")

detailed_mismatched_records(new, old) ==
    LET non_key_cols_new == non_key_cols(new)
        non_key_cols_old == non_key_cols(old)
        df_old_renamed == Rename(old, rename_map(non_key_cols_old, non_key_cols_new))
        merged == Merge(new, df_old_renamed, "outer", <<"_new", "_old">>)
        n == Len(merged.rows)
        col_new(c) == Append(c, "_new")
        col_old(c) == Append(c, "_old")
        missing(c) == ~HasCol(merged, col_new(c)) \/ ~HasCol(merged, col_old(c))
        vnew(c, r) == Column(merged, col_new(c))[r]
        vold(c, r) == Column(merged, col_old(c))[r]
        snew(c, r) == astype_str(Dtype(merged, col_new(c)), vnew(c, r))
        sold(c, r) == astype_str(Dtype(merged, col_old(c)), vold(c, r))
        mismatch_mask(c) ==
            [r \in 1..n |-> ~null_aware_match(vnew(c, r), vold(c, r))]
        mismatch_row_mask ==
            [r \in 1..n |-> \E i \in 1..Len(non_key_cols_new) : mismatch_mask(non_key_cols_new[i])[r]]
        only_new_mask == [r \in 1..n |-> merged._merge[r] = "left_only"]
        only_old_mask == [r \in 1..n |-> merged._merge[r] = "right_only"]
        cell(c, r) ==
            IF only_old_mask[r] THEN only_old_cell(sold(c, r))
            ELSE IF only_new_mask[r] THEN only_new_cell(snew(c, r))
            ELSE IF mismatch_mask(c)[r] THEN mismatch_cell(sold(c, r), snew(c, r))
            ELSE vnew(c, r)
        kept == Where([r \in 1..n |-> mismatch_row_mask[r] \/ only_new_mask[r] \/ only_old_mask[r]])
        columns_to_keep == <<Primary_Key>> \o non_key_cols_new
    IN IF Len(non_key_cols_new) # Len(non_key_cols_old) THEN ValueError
       \* a column absent after the merge: the fallback branch indexes it and raises
       ELSE IF \E i \in 1..Len(non_key_cols_new) : missing(non_key_cols_new[i])
       THEN [status |-> "KeyError"]
       ELSE Ok([cols |-> columns_to_keep,
                rows |-> [q \in 1..Len(kept) |->
                            <<Column(merged, Primary_Key)[kept[q]]>>
                            \o [i \in 1..Len(non_key_cols_new) |->
                                  cell(non_key_cols_new[i], kept[q])]]])

get_detailed_mismatched_records ==
    /\ call' = <<"get_detailed_mismatched_records">>
    /\ result' = detailed_mismatched_records(df_new, df_old)
    /\ df_old' = old_after_call(df_new, df_old)
    /\ UNCHANGED df_new
    /\ UNCHANGED main_vars

(***************************************************************************)
(* get_extra_and_duplicate_records                                         *)
(***************************************************************************)
\* the side selectors a caller may pass, the two valid ones among them
Tables == {"Old", "New", "old", "Both"}

\* mutant: the selector is accepted in lower case too
is_valid_table_mut(table) == table \in {"Old", "New", "old", "new"}

\* table in ['Old', 'New']
is_valid_table(table) == table \in {"Old", "New"}

extra_and_duplicate_records(new, old, table) ==
    LET side == IF table = "Old" THEN old ELSE new
        other == IF table = "Old" THEN new ELSE old
        extra_merge == Merge(side, Project(other, <<Primary_Key>>), "left", <<"_x", "_y">>)
        left_only == Where([r \in 1..Len(extra_merge.rows) |-> extra_merge._merge[r] = "left_only"])
    IN IF ~is_valid_table(table) THEN ValueError
       ELSE Ok([Extra_Records |->
                    [cols |-> extra_merge.cols,
                     rows |-> [q \in 1..Len(left_only) |-> extra_merge.rows[left_only[q]]]],
                Duplicate_Records |->
                    [cols |-> side.cols,
                     rows |-> Take(side, Where(Duplicated(side))).rows]])

get_extra_and_duplicate_records ==
    \E table \in Tables :
        /\ call' = <<"get_extra_and_duplicate_records", table>>
        /\ result' = extra_and_duplicate_records(df_new, df_old, table)
        /\ UNCHANGED <<df_new, df_old>>
        /\ UNCHANGED main_vars

(***************************************************************************)
(* compare_columns_and_generate_sheets                                     *)
(***************************************************************************)
\* mutant: the actual text is written in both places
comparison_text_mut(expected, actual) == "E: " \o actual \o ", A: " \o actual
\* 'E: ' + expected + ', A: ' + actual
comparison_text(expected, actual) == "E: " \o expected \o ", A: " \o actual

comparison_sheet(new, old_renamed, column) ==
    LET merged_df == Merge(Project(old_renamed, <<Primary_Key, column>>),
                           Project(new, <<Primary_Key, column>>),
                           "inner", <<"_Expected", "_Actual">>)
        expected(r) == astype_str(Dtype(merged_df, Append(column, "_Expected")),
                                  Column(merged_df, Append(column, "_Expected"))[r])
        actual(r) == astype_str(Dtype(merged_df, Append(column, "_Actual")),
                                Column(merged_df, Append(column, "_Actual"))[r])
    IN [cols |-> <<Primary_Key, Append(column, "_Expected"), Append(column, "_Actual"),
                   Append(column, "_Comparison")>>,
        rows |-> [r \in 1..Len(merged_df.rows) |->
                    <<Column(merged_df, Primary_Key)[r], Str(expected(r)), Str(actual(r)),
                      Str(comparison_text(expected(r), actual(r)))>>]]

comparison_sheets(new, old) ==
    LET new_columns == non_key_cols(new)
        old_columns == non_key_cols(old)
        df_old_filtered_renamed == Rename(old, rename_map(old_columns, new_columns))
        compared == {c \in Range(new_columns) : HasCol(df_old_filtered_renamed, c)}
    IN \* a differing column count prints an error and returns the empty dictionary
       IF Len(new_columns) # Len(old_columns) THEN Ok(<<>>)
       ELSE Ok([c \in compared |-> comparison_sheet(new, df_old_filtered_renamed, c)])

compare_columns_and_generate_sheets ==
    /\ call' = <<"compare_columns_and_generate_sheets">>
    /\ result' = comparison_sheets(df_new, df_old)
    /\ df_old' = old_after_call(df_new, df_old)
    /\ UNCHANGED df_new
    /\ UNCHANGED main_vars

(***************************************************************************)
(* The input DataFrames, as the dataset provider hands them over: the      *)
(* non-key columns followed by the Primary_Key column it appends.  A       *)
(* column read from the database is an integer column unless it holds a    *)
(* missing value.                                                          *)
(***************************************************************************)
NewColName(i) == <<"n" \o ToString(i)>>
OldColName(i) == <<"o" \o ToString(i)>>

RowsOf(ncols) == {vs \o <<k>> : vs \in [1..ncols -> Values], k \in InputKeys}

Frame(names, rows) ==
    LET ncols == Len(names)
    IN [cols |-> Append(names, Primary_Key),
        dtypes |-> [i \in 1..(ncols + 1) |->
                      IF i = ncols + 1 THEN "object"
                      ELSE IF \E r \in 1..Len(rows) : isnull(rows[r][i]) THEN "float64"
                      ELSE "int64"],
        rows |-> rows]

Frames(names, nrows) == {Frame(names, rows) : rows \in [1..nrows -> RowsOf(Len(names))]}

Shapes ==
    {s \in [cn : 1..MaxCols, co : 1..MaxCols, rn : 0..MaxRows, ro : 0..MaxRows] :
        s.cn * s.rn + s.co * s.ro <= MaxCells}

\* the concrete scenarios of the specification, as <<new, old>>
Scenario_OneSided ==
    <<Frame(<<<<"x">>>>, <<<<Num(1), "A">>, <<Num(3), "C">>>>),
      Frame(<<<<"x">>>>, <<<<Num(1), "A">>, <<Num(2), "B">>>>)>>
Scenario_Duplicate ==
    <<Frame(<<<<"y">>>>, <<<<Num(5), "A">>>>),
      Frame(<<<<"y">>>>, <<<<Num(5), "A">>, <<Num(6), "A">>>>)>>
Scenario_Schema ==
    <<Frame([i \in 1..3 |-> NewColName(i)], <<<<Num(1), Num(1), Num(1), "A">>>>),
      Frame([i \in 1..4 |-> OldColName(i)], <<<<Num(1), Num(1), Num(1), Num(1), "A">>>>)>>
Scenarios == {Scenario_OneSided, Scenario_Duplicate, Scenario_Schema}

\* main is not running
NoLocals == [v \in {} |-> v]
main_idle ==
    /\ tables_dict = <<>>
    /\ table_name = 0
    /\ pc = "idle"
    /\ locals = NoLocals
    /\ files = <<>>

Init ==
    /\ \/ \E s \in Shapes :
             /\ df_new \in Frames([i \in 1..s.cn |-> NewColName(i)], s.rn)
             /\ df_old \in Frames([i \in 1..s.co |-> OldColName(i)], s.ro)
       \/ \E sc \in Scenarios :
             /\ df_new = sc[1]
             /\ df_old = sc[2]
    /\ call = <<"none">>
    /\ result = [status |-> "none"]
    /\ main_idle

Next ==
    \/ compare_primary_keys_and_rows_by_position
    \/ generate_column_summary
    \/ get_matching_records
    \/ get_detailed_mismatched_records
    \/ get_extra_and_duplicate_records
    \/ compare_columns_and_generate_sheets

Spec == Init /\ [][Next]_vars

(***************************************************************************)
(* The same six functions on Datasets of two or more columns whose column  *)
(* counts agree and whose old column names are the new names, the new      *)
(* names in reverse order, the new names shifted by one place, or names of *)
(* their own.                                                              *)
(***************************************************************************)
OldNamings(n) ==
    {[i \in 1..n |-> NewColName(i)],
     [i \in 1..n |-> NewColName(n + 1 - i)],
     [i \in 1..n |-> IF i = 1 THEN OldColName(1) ELSE NewColName(i - 1)],
     [i \in 1..n |-> OldColName(i)]}

InitNames ==
    /\ \E s \in Shapes :
          /\ s.cn = s.co
          /\ s.cn > 1
          /\ df_new \in Frames([i \in 1..s.cn |-> NewColName(i)], s.rn)
          /\ \E names \in OldNamings(s.co) : df_old \in Frames(names, s.ro)
    /\ call = <<"none">>
    /\ result = [status |-> "none"]
    /\ main_idle

SpecNames == InitNames /\ [][Next]_vars

(***************************************************************************)
(* The same six functions on Datasets of two columns whose new column      *)
(* names hold the text of a merge suffix: 'x' beside 'x_new', 'a_new_b',   *)
(* 'x_old' beside 'x'.                                                     *)
(***************************************************************************)
SuffixNamings ==
    {<<<<"x">>, <<"x", "_new">>>>,
     <<<<"a", "_new", "b">>, <<"y">>>>,
     <<<<"x", "_old">>, <<"x">>>>}

InitSuffix ==
    /\ \E s \in Shapes :
          /\ s.cn = s.co
          /\ \E names \in SuffixNamings :
                /\ s.cn = Len(names)
                /\ df_new \in Frames(names, s.rn)
          /\ df_old \in Frames([i \in 1..s.co |-> OldColName(i)], s.ro)
    /\ call = <<"none">>
    /\ result = [status |-> "none"]
    /\ main_idle

SpecSuffix == InitSuffix /\ [][Next]_vars

(***************************************************************************)
(* analyze_main.main: the loop over the tables.  Each statement that calls *)
(* a core function is one step; an exception a core function raises is     *)
(* caught nowhere and ends the run.                                        *)
(***************************************************************************)
SheetNameLimit == 31
InvalidSheetChars == {"\\", "/", "*", "?", ":", "[", "]"}
FILTERED_OUTPUT_EXCEL_FILE == "Filtered_Tables.xlsx"
ANALYSIS_OUTPUT_FILE == "Analysis_Summary.xlsx"

\* a piece of a column name that fills a sheet name by itself
LongText == "customer_account_reference_code"

\* number of characters of a piece of a column name
TextLen(t) == IF t \in {"x", "y", "a", "b", "_"} \cup InvalidSheetChars THEN 1
              ELSE IF t \in {"_new", "_old"} THEN 4
              ELSE IF t = "Summary" THEN 7
              ELSE IF t = LongText THEN SheetNameLimit
              ELSE 2

RECURSIVE NameLen(_)
NameLen(name) == IF name = <<>> THEN 0 ELSE TextLen(Head(name)) + NameLen(Tail(name))

\* the characters Excel refuses become '_', the name is cut at 31 characters
safe_sheet_name(sheet_name) ==
    LET replaced == [i \in 1..Len(sheet_name) |->
                        IF sheet_name[i] \in InvalidSheetChars THEN "_" ELSE sheet_name[i]]
        kept == {n \in 0..Len(replaced) : NameLen(SubSeq(replaced, 1, n)) <= SheetNameLimit}
    IN SubSeq(replaced, 1, CHOOSE n \in kept : \A m \in kept : m <= n)

\* d[key] = value on a dictionary kept as its items in insertion order
dict_set(d, key, value) ==
    IF \E i \in 1..Len(d) : d[i][1] = key
    THEN [i \in 1..Len(d) |-> IF d[i][1] = key THEN <<key, value>> ELSE d[i]]
    ELSE Append(d, <<key, value>>)

RECURSIVE dict_update(_, _)
dict_update(d, items) ==
    IF items = <<>> THEN d
    ELSE dict_update(dict_set(d, Head(items)[1], Head(items)[2]), Tail(items))

\* save_to_excel(dataframes_dict, table_name + output_file)
save_to_excel(written, dataframes_dict, table, output_file) ==
    Append(written, [table |-> table, file |-> output_file, sheets |-> dataframes_dict])

\* mutant: the exception is swallowed and the next statement runs
propagate_mut(res, following) == following

\* where the run goes after a call: on, or out of main with the exception
propagate(res, following) == IF res.status = "ok" THEN following ELSE "raised"

\* mutant: the loop goes on with the next table after an exception
at_loop_head_mut(at) == at \in {"loop", "raised"}

\* for table_name, dfs in tables_dict.items()
at_loop_head(at) == at = "loop"

\* a local variable is bound when the call returned
bind(res, name) ==
    IF res.status = "ok"
    THEN [v \in DOMAIN locals \cup {name} |-> IF v = name THEN res.value ELSE locals[v]]
    ELSE locals

main_next_table ==
    /\ at_loop_head(pc)
    /\ table_name < Len(tables_dict)
    /\ table_name' = table_name + 1
    /\ df_new' = tables_dict[table_name + 1][1]
    /\ df_old' = tables_dict[table_name + 1][2]
    /\ pc' = "save_filtered"
    /\ UNCHANGED <<call, result, tables_dict, locals, files>>

main_return ==
    /\ at_loop_head(pc)
    /\ table_name = Len(tables_dict)
    /\ pc' = "returned"
    /\ UNCHANGED <<df_new, df_old, call, result, tables_dict, table_name, locals, files>>

main_save_filtered ==
    /\ pc = "save_filtered"
    /\ files' = save_to_excel(files, <<<<<<"NewDataTable">>, df_new>>, <<<<"OldDataTable">>, df_old>>>>,
                              table_name, FILTERED_OUTPUT_EXCEL_FILE)
    /\ pc' = "metrics"
    /\ UNCHANGED <<df_new, df_old, call, result, tables_dict, table_name, locals>>

main_metrics ==
    /\ pc = "metrics"
    /\ call' = <<"compare_primary_keys_and_rows_by_position">>
    /\ result' = metrics(df_new, df_old)
    /\ locals' = bind(result', "metrics")
    /\ pc' = propagate(result', "column_summary")
    /\ df_old' = old_after_call(df_new, df_old)
    /\ UNCHANGED <<df_new, tables_dict, table_name, files>>

main_column_summary ==
    /\ pc = "column_summary"
    /\ call' = <<"generate_column_summary">>
    /\ result' = column_summary(df_new, df_old)
    /\ locals' = bind(result', "column_summary")
    /\ pc' = propagate(result', "matching_records")
    /\ df_old' = old_after_call(df_new, df_old)
    /\ UNCHANGED <<df_new, tables_dict, table_name, files>>

main_matching_records ==
    /\ pc = "matching_records"
    /\ call' = <<"get_matching_records">>
    /\ result' = matching_records(df_new, df_old)
    /\ locals' = bind(result', "matching_records")
    /\ pc' = propagate(result', "mismatched_records")
    /\ df_old' = old_after_call(df_new, df_old)
    /\ UNCHANGED <<df_new, tables_dict, table_name, files>>

main_mismatched_records ==
    /\ pc = "mismatched_records"
    /\ call' = <<"get_detailed_mismatched_records">>
    /\ result' = detailed_mismatched_records(df_new, df_old)
    /\ locals' = bind(result', "mismatched_records")
    /\ pc' = propagate(result', "old_extra_and_duplicates")
    /\ df_old' = old_after_call(df_new, df_old)
    /\ UNCHANGED <<df_new, tables_dict, table_name, files>>

main_old_extra_and_duplicates ==
    /\ pc = "old_extra_and_duplicates"
    /\ call' = <<"get_extra_and_duplicate_records", "Old">>
    /\ result' = extra_and_duplicate_records(df_new, df_old, "Old")
    /\ locals' = bind(result', "old_extra_and_duplicates")
    /\ pc' = propagate(result', "new_extra_and_duplicates")
    /\ UNCHANGED <<df_new, df_old, tables_dict, table_name, files>>

main_new_extra_and_duplicates ==
    /\ pc = "new_extra_and_duplicates"
    /\ call' = <<"get_extra_and_duplicate_records", "New">>
    /\ result' = extra_and_duplicate_records(df_new, df_old, "New")
    /\ locals' = bind(result', "new_extra_and_duplicates")
    /\ pc' = propagate(result', "comparison_sheets")
    /\ UNCHANGED <<df_new, df_old, tables_dict, table_name, files>>

main_comparison_sheets ==
    /\ pc = "comparison_sheets"
    /\ call' = <<"compare_columns_and_generate_sheets">>
    /\ result' = comparison_sheets(df_new, df_old)
    /\ locals' = bind(result', "comparison_sheets")
    /\ pc' = propagate(result', "save_analysis")
    /\ df_old' = old_after_call(df_new, df_old)
    /\ UNCHANGED <<df_new, tables_dict, table_name, files>>

\* the ten sheets of every analysis report, then one sheet per compared column
dataframes_to_save_summary ==
    LET sheets == locals["comparison_sheets"]
        \* comparison_sheets.items(): the compared columns in their order
        compared == SelectSeq(non_key_cols(df_new), LAMBDA c : c \in DOMAIN sheets)
    IN dict_update(
         <<<<<<"OldDataTable">>, df_old>>,
           <<<<"NewDataTable">>, df_new>>,
           <<<<"Summary">>, <<locals["metrics"]>>>>,
           <<<<"Column_Summary">>, locals["column_summary"]>>,
           <<<<"Matching_Records">>, locals["matching_records"]>>,
           <<<<"Mismatched_Records">>, locals["mismatched_records"]>>,
           <<<<"Old_Table_Extra_Records">>, locals["old_extra_and_duplicates"].Extra_Records>>,
           <<<<"New_Table_Extra_Records">>, locals["new_extra_and_duplicates"].Extra_Records>>,
           <<<<"Old_Table_Duplicate_Records">>, locals["old_extra_and_duplicates"].Duplicate_Records>>,
           <<<<"New_Table_Duplicate_Records">>, locals["new_extra_and_duplicates"].Duplicate_Records>>>>,
         [i \in 1..Len(compared) |-> <<safe_sheet_name(compared[i]), sheets[compared[i]]>>])

main_save_analysis ==
    /\ pc = "save_analysis"
    /\ files' = save_to_excel(files, dataframes_to_save_summary, table_name, ANALYSIS_OUTPUT_FILE)
    /\ pc' = "loop"
    /\ UNCHANGED <<df_new, df_old, call, result, tables_dict, table_name, locals>>

\* the tables a run is given: the concrete scenarios and the empty tables of
\* every pair of column counts
TableChoices ==
    Scenarios \cup
    {<<Frame([i \in 1..cn |-> NewColName(i)], <<>>), Frame([i \in 1..co |-> OldColName(i)], <<>>)>> :
        cn \in 1..MaxCols, co \in 1..MaxCols}

\* the dictionaries of at most n tables
TableLists(n) == UNION {[1..k -> TableChoices] : k \in 0..n}

Unbound == [cols |-> <<>>, dtypes |-> <<>>, rows |-> <<>>]

InitMain ==
    /\ tables_dict \in TableLists(MaxTables)
    /\ table_name = 0
    /\ pc = "loop"
    /\ locals = NoLocals
    /\ files = <<>>
    /\ df_new = Unbound
    /\ df_old = Unbound
    /\ call = <<"none">>
    /\ result = [status |-> "none"]

NextMain ==
    \/ main_next_table
    \/ main_return
    \/ main_save_filtered
    \/ main_metrics
    \/ main_column_summary
    \/ main_matching_records
    \/ main_mismatched_records
    \/ main_old_extra_and_duplicates
    \/ main_new_extra_and_duplicates
    \/ main_comparison_sheets
    \/ main_save_analysis

SpecMain == InitMain /\ [][NextMain]_vars

(***************************************************************************)
(* main on tables whose column names meet the sheet naming: a column       *)
(* called as a fixed sheet, two columns that differ in a character Excel   *)
(* refuses, columns longer than a sheet name may be.                       *)
(***************************************************************************)
Table_FixedSheetName ==
    <<Frame(<<<<"Summary">>>>, <<<<Num(1), "A">>>>),
      Frame(<<<<"x">>>>, <<<<Num(2), "A">>>>)>>
Table_Punctuation ==
    <<Frame(<<<<"a", "/", "b">>, <<"a", "_", "b">>>>, <<<<Num(1), Num(2), "A">>>>),
      Frame(<<<<"a", "/", "b">>, <<"a", "_", "b">>>>, <<<<Num(1), Num(1), "A">>>>)>>
Table_LongNames ==
    <<Frame(<<<<LongText, "x">>, <<LongText, "y">>>>, <<<<Num(1), Num(2), "A">>>>),
      Frame(<<<<LongText, "x">>, <<LongText, "y">>>>, <<<<Num(2), Num(2), "A">>>>)>>
Table_LongName ==
    <<Frame(<<<<LongText, "x">>>>, <<<<Num(1), "A">>>>),
      Frame(<<<<LongText, "x">>>>, <<<<NaN, "A">>>>)>>

SheetTableChoices ==
    Scenarios \cup {Table_FixedSheetName, Table_Punctuation, Table_LongNames, Table_LongName}

InitSheets ==
    /\ tables_dict \in UNION {[1..k -> SheetTableChoices] : k \in 1..MaxTables}
    /\ table_name = 0
    /\ pc = "loop"
    /\ locals = NoLocals
    /\ files = <<>>
    /\ df_new = Unbound
    /\ df_old = Unbound
    /\ call = <<"none">>
    /\ result = [status |-> "none"]

SpecSheets == InitSheets /\ [][NextMain]_vars

(***************************************************************************)
(* my_table_fetcher.get_table_definitions_from_excel: the composite        *)
(* Primary_Key.  The two DataFrames are as the queries return them, their  *)
(* columns being key columns k1, k2; a key value is a number or a text,    *)
(* a text a sequence of characters.                                        *)
(***************************************************************************)
Number(digits) == [kind |-> "int", text |-> digits]
Text(chars) == [kind |-> "str", text |-> chars]
KeyValues == {Number(<<"1">>), Text(<<"1">>), Text(<<"a">>), Text(<<"a", "_", "a">>)}
KeyColName(i) == <<"k" \o ToString(i)>>

\* str(value): the characters, whatever the type was
str(value) == value.text

\* sep.join(texts)
join(sep, texts) ==
    Concat([i \in 1..Len(texts) |-> IF i = 1 THEN texts[i] ELSE sep \o texts[i]])

\* "_".join(str(row[col]) for col in pk_cols)
build_pk(df, r, pk_cols) ==
    join(<<"_">>, [i \in 1..Len(pk_cols) |-> str(df.rows[r][ColIndex(df, pk_cols[i])])])

\* df["Primary_Key"] = df.apply(lambda r: build_pk(r, pk_cols), axis=1)
with_primary_key(df, pk_cols) ==
    [cols |-> Append(df.cols, Primary_Key),
     dtypes |-> Append(df.dtypes, "object"),
     rows |-> [r \in 1..Len(df.rows) |-> Append(df.rows[r], build_pk(df, r, pk_cols))]]

\* a DataFrame as read_sql_query returns it
Fetched(ncols, rows) ==
    [cols |-> [i \in 1..ncols |-> KeyColName(i)],
     dtypes |-> [i \in 1..ncols |->
                   IF \A r \in 1..Len(rows) : rows[r][i].kind = "int" THEN "int64" ELSE "object"],
     rows |-> rows]

get_table_definitions_from_excel ==
    /\ pc = "read_sql_query"
    /\ df_old' = with_primary_key(df_old, locals.old_pk_cols)
    /\ df_new' = with_primary_key(df_new, locals.new_pk_cols)
    /\ tables_dict' = <<<<df_new', df_old'>>>>
    /\ pc' = "table_data"
    /\ UNCHANGED <<call, result, table_name, locals, files>>

InitKeys ==
    /\ \E ncols \in 1..MaxCols :
          /\ \E nrows \in 1..MaxRows :
                df_new \in {Fetched(ncols, rows) : rows \in [1..nrows -> [1..ncols -> KeyValues]]}
          /\ df_old \in {Fetched(ncols, <<row>>) : row \in [1..ncols -> KeyValues]}
          /\ \E n \in 1..ncols :
                locals = [old_pk_cols |-> [i \in 1..n |-> KeyColName(i)],
                          new_pk_cols |-> [i \in 1..n |-> KeyColName(i)]]
    /\ pc = "read_sql_query"
    /\ tables_dict = <<>>
    /\ table_name = 0
    /\ files = <<>>
    /\ call = <<"none">>
    /\ result = [status |-> "none"]

NextKeys == get_table_definitions_from_excel

SpecKeys == InitKeys /\ [][NextKeys]_vars

(***************************************************************************)
(* The notions of the specification, stated on the two Datasets            *)
(* themselves: a joined record <<i, j>> is row i of the new Dataset with   *)
(* row j of the old one, the absent side of a one-sided record being 0.    *)
(***************************************************************************)
KeyOf(df, r) == df.rows[r][ColIndex(df, Primary_Key)]
KeysOf(df) == {KeyOf(df, r) : r \in 1..Len(df.rows)}
Occurrences(df, k) == Cardinality({r \in 1..Len(df.rows) : KeyOf(df, r) = k})
NonKeyPos(df) == SelectSeq(Indices(df.cols), LAMBDA i : df.cols[i] # Primary_Key)
NonKeyCount(df) == Len(NonKeyPos(df))
SameSchema == NonKeyCount(df_new) = NonKeyCount(df_old)

BothRecords ==
    {p \in (1..Len(df_new.rows)) \X (1..Len(df_old.rows)) : KeyOf(df_new, p[1]) = KeyOf(df_old, p[2])}
NewOnlyRecords == {<<i, 0>> : i \in {r \in 1..Len(df_new.rows) : KeyOf(df_new, r) \notin KeysOf(df_old)}}
OldOnlyRecords == {<<0, j>> : j \in {r \in 1..Len(df_old.rows) : KeyOf(df_old, r) \notin KeysOf(df_new)}}
JoinedRecords == BothRecords \cup NewOnlyRecords \cup OldOnlyRecords

\* the value of the c-th non-key column on either side of a joined record
NewValue(p, c) == IF p[1] = 0 THEN NaN ELSE df_new.rows[p[1]][NonKeyPos(df_new)[c]]
OldValue(p, c) == IF p[2] = 0 THEN NaN ELSE df_old.rows[p[2]][NonKeyPos(df_old)[c]]
\* equal, or both null
CellEqual(p, c) == NewValue(p, c) = OldValue(p, c)
FullMatch(p) == p \in BothRecords /\ \A c \in 1..NonKeyCount(df_new) : CellEqual(p, c)

Returned(f) == call[1] = f /\ result.status = "ok"
MetricsReturned == Returned("compare_primary_keys_and_rows_by_position")

(***************************************************************************)
(* C1: the Match Record Count is the number of joined records tagged       *)
(* 'both' whose every non-key cell is equal or null on both sides.         *)
(* The code compares with == alone, so a record with a null-null cell is   *)
(* not counted as a match.                                                 *)
(***************************************************************************)
C1_MatchCountIsNullAware ==
    MetricsReturned =>
        result.value.match_record_count = Cardinality({p \in JoinedRecords : FullMatch(p)})

(***************************************************************************)
(* C2: the Metrics counts agree with the views: Match Record Count is the  *)
(* number of rows of get_matching_records and Mismatch Record Count the    *)
(* number of rows of get_detailed_mismatched_records.                      *)
(***************************************************************************)
C2_CountsAgreeWithViews ==
    MetricsReturned =>
        /\ result.value.match_record_count = Len(matching_records(df_new, df_old).value.rows)
        /\ result.value.mismatch_record_count =
              Len(detailed_mismatched_records(df_new, df_old).value.rows)

(***************************************************************************)
(* C3: Match Record Count + Mismatch Record Count is the number of joined  *)
(* records of the full outer join.                                         *)
(***************************************************************************)
C3_MatchPlusMismatchIsJoinSize ==
    MetricsReturned =>
        result.value.match_record_count + result.value.mismatch_record_count
            = Cardinality(JoinedRecords)

C3_Witness ==
    /\ MetricsReturned
    /\ result.value.match_record_count = 1
    /\ result.value.mismatch_record_count = 2
    /\ OldOnlyRecords # {}
    /\ \E p \in BothRecords : ~FullMatch(p)

(***************************************************************************)
(* C4: with differing non-key column counts each of the five consumers     *)
(* fails with the schema-mismatch error and returns nothing.               *)
(* compare_columns_and_generate_sheets returns an empty dictionary.        *)
(***************************************************************************)
SchemaConsumers ==
    {"compare_primary_keys_and_rows_by_position", "generate_column_summary",
     "get_matching_records", "get_detailed_mismatched_records",
     "compare_columns_and_generate_sheets"}

C4_SchemaMismatchRaises ==
    (call[1] \in SchemaConsumers /\ ~SameSchema) => result = ValueError

(***************************************************************************)
(* C5: the joined record set is a full outer join on Primary_Key: a key    *)
(* occurring n >= 1 times in new and m >= 1 times in old gives n * m       *)
(* records tagged 'both', a key of one side only gives one one-sided       *)
(* record per row, and every key of either side appears.  In the scenario  *)
(* old = [A:5, A:6], new = [A:5] there are two joined records, one full    *)
(* match and one mismatch.                                                 *)
(***************************************************************************)
Tagged(merged, k, tag) ==
    Cardinality({r \in 1..Len(merged.rows) :
                    merged._merge[r] = tag /\ Column(merged, Primary_Key)[r] = k})

C5_FullOuterJoin ==
    MetricsReturned =>
        LET merged == merged_outer(df_new, df_old)
        IN /\ \A k \in Range(Keys) :
                LET n == Occurrences(df_new, k)
                    m == Occurrences(df_old, k)
                IN /\ Tagged(merged, k, "both") = n * m
                   /\ Tagged(merged, k, "left_only") = (IF m = 0 THEN n ELSE 0)
                   /\ Tagged(merged, k, "right_only") = (IF n = 0 THEN m ELSE 0)
                   /\ (n + m >= 1 => \E r \in 1..Len(merged.rows) :
                                        Column(merged, Primary_Key)[r] = k)
           /\ <<df_new, df_old>> = Scenario_Duplicate =>
                /\ Len(merged.rows) = 2
                /\ result.value.match_record_count = 1
                /\ result.value.mismatch_record_count = 1

C5_Witness ==
    /\ MetricsReturned
    /\ <<df_new, df_old>> = Scenario_Duplicate
    /\ Tagged(merged_outer(df_new, df_old), "A", "both") = 2


(***************************************************************************)
(* C6: a record of a key present only in new is counted as a mismatch,     *)
(* never as a match, and is a row of get_detailed_mismatched_records whose *)
(* every non-key cell reads 'O: null, N: <new value or null>'; an old-only *)
(* record symmetrically reads 'O: <old value or null>, N: null'.           *)
(***************************************************************************)
\* the texts a value may be written as: a number with or without its fraction
Texts(x) == IF isnull(x) THEN {"null"} ELSE {ToString(x.v), ToString(x.v) \o ".0"}
RowsOfKey(rows, pos, k) == SelectSeq(rows, LAMBDA row : row[pos] = k)

C6_OneSidedRecords ==
    /\ MetricsReturned =>
          /\ result.value.match_record_count <= Cardinality(BothRecords)
          /\ result.value.mismatch_record_count =
                Cardinality(NewOnlyRecords) + Cardinality(OldOnlyRecords)
                + (Cardinality(BothRecords) - result.value.match_record_count)
    /\ (SameSchema /\ call[1] = "get_detailed_mismatched_records") =>
          /\ result.status = "ok"
          /\ result.value.cols = <<Primary_Key>> \o non_key_cols(df_new)
          /\ \A k \in KeysOf(df_new) \ KeysOf(df_old) :
                LET ins == RowsOfKey(df_new.rows, ColIndex(df_new, Primary_Key), k)
                    outs == RowsOfKey(result.value.rows, 1, k)
                IN /\ Len(outs) = Len(ins)
                   /\ \A q \in 1..Len(ins) : \A c \in 1..NonKeyCount(df_new) :
                         \E t \in Texts(ins[q][NonKeyPos(df_new)[c]]) :
                            outs[q][1 + c] = Str("O: null, N: " \o t)
          /\ \A k \in KeysOf(df_old) \ KeysOf(df_new) :
                LET ins == RowsOfKey(df_old.rows, ColIndex(df_old, Primary_Key), k)
                    outs == RowsOfKey(result.value.rows, 1, k)
                IN /\ Len(outs) = Len(ins)
                   /\ \A q \in 1..Len(ins) : \A c \in 1..NonKeyCount(df_old) :
                         \E t \in Texts(ins[q][NonKeyPos(df_old)[c]]) :
                            outs[q][1 + c] = Str("O: " \o t \o ", N: null")

C6_Witness ==
    /\ Returned("get_detailed_mismatched_records")
    /\ OldOnlyRecords # {}
    /\ \E p \in NewOnlyRecords : \E c, d \in 1..NonKeyCount(df_new) :
          isnull(NewValue(p, c)) /\ notnull(NewValue(p, d))

(***************************************************************************)
(* C7: Extra_Records of side S are the rows of S whose Primary_Key occurs  *)
(* nowhere in the other side, each exactly once whatever the other side    *)
(* duplicates; no extra key occurs in the other side.                      *)
(***************************************************************************)
Count(rows, row) == Cardinality({r \in 1..Len(rows) : rows[r] = row})
Side(table) == IF table = "Old" THEN df_old ELSE df_new
Other(table) == IF table = "Old" THEN df_new ELSE df_old
ExtraDupReturned(table) == call = <<"get_extra_and_duplicate_records", table>>

C7_ExtraIsKeyAntiJoin ==
    \A table \in {"Old", "New"} :
        ExtraDupReturned(table) =>
            /\ result.status = "ok"
            /\ result.value.Extra_Records.cols = Side(table).cols
            /\ LET out == result.value.Extra_Records.rows
                   kc == ColIndex(Side(table), Primary_Key)
               IN /\ \A row \in Range(Side(table).rows) \cup Range(out) :
                        Count(out, row) =
                            (IF row[kc] \in KeysOf(Other(table)) THEN 0
                             ELSE Count(Side(table).rows, row))
                  /\ \A r \in 1..Len(out) : out[r][kc] \notin KeysOf(Other(table))

C7_Witness ==
    /\ ExtraDupReturned("New")
    /\ Len(result.value.Extra_Records.rows) = 1
    /\ \E k \in KeysOf(df_new) : Occurrences(df_old, k) = 2

(***************************************************************************)
(* C8: Duplicate_Records of side S are all the rows of S whose Primary_Key *)
(* occurs at least twice within S, whatever the other side holds, and the  *)
(* Metrics duplicate counts are the numbers of those rows.                 *)
(***************************************************************************)
DuplicateRows(df) == {r \in 1..Len(df.rows) : Occurrences(df, KeyOf(df, r)) >= 2}

C8_DuplicatesWithMultiplicity ==
    /\ \A table \in {"Old", "New"} :
          ExtraDupReturned(table) =>
              /\ result.status = "ok"
              /\ result.value.Duplicate_Records.cols = Side(table).cols
              /\ LET out == result.value.Duplicate_Records.rows
                     kc == ColIndex(Side(table), Primary_Key)
                 IN \A row \in Range(Side(table).rows) \cup Range(out) :
                        Count(out, row) =
                            (IF Occurrences(Side(table), row[kc]) >= 2
                             THEN Count(Side(table).rows, row) ELSE 0)
    /\ MetricsReturned =>
          /\ result.value.old_duplicates = Cardinality(DuplicateRows(df_old))
          /\ result.value.new_duplicates = Cardinality(DuplicateRows(df_new))

C8_Witness ==
    /\ ExtraDupReturned("Old")
    /\ Len(result.value.Duplicate_Records.rows) = 2
    /\ result.value.Duplicate_Records.rows[1] # result.value.Duplicate_Records.rows[2]
    /\ KeysOf(df_old) \subseteq KeysOf(df_new)

(***************************************************************************)
(* C9: per non-key column, Matches is the number of joined records of the  *)
(* whole outer join whose two values are equal or both null, and           *)
(* Mismatches is the rest.  In the scenario old = [A:1, B:2],              *)
(* new = [A:1, C:3] column x has Matches = 1 and Mismatches = 2, one       *)
(* 'Null - Not Null' and one 'Not Null - Null', and the Metrics are        *)
(* Match = 1, Mismatch = 2.                                                *)
(***************************************************************************)
SummaryReturned == Returned("generate_column_summary")

C9_ColumnMatchesAndMismatches ==
    /\ SummaryReturned =>
          /\ Len(result.value) = NonKeyCount(df_new)
          /\ \A c \in 1..NonKeyCount(df_new) :
                /\ result.value[c].column_name = df_new.cols[NonKeyPos(df_new)[c]]
                /\ result.value[c].matches_count =
                      Cardinality({p \in JoinedRecords : CellEqual(p, c)})
                /\ result.value[c].mismatches_count =
                      Cardinality(JoinedRecords) - result.value[c].matches_count
          /\ <<df_new, df_old>> = Scenario_OneSided =>
                /\ result.value[1].matches_count = 1
                /\ result.value[1].mismatches_count = 2
                /\ result.value[1].null_not_null_count = 1
                /\ result.value[1].not_null_null_count = 1
    /\ (MetricsReturned /\ <<df_new, df_old>> = Scenario_OneSided) =>
          /\ result.value.match_record_count = 1
          /\ result.value.mismatch_record_count = 2

C9_Witness ==
    /\ SummaryReturned
    /\ <<df_new, df_old>> = Scenario_OneSided
    /\ result.value[1].mismatches_count = 2

(***************************************************************************)
(* C10, as claimed: the four categories are exclusive and exhaustive over  *)
(* the mismatching records of a column, and their counts sum to            *)
(* Mismatches.                                                             *)
(***************************************************************************)
C10_FourCategoriesSumToMismatches ==
    SummaryReturned =>
        \A c \in 1..Len(result.value) :
            result.value[c].not_null_not_null_count + result.value[c].not_null_null_count
            + result.value[c].null_not_null_count + result.value[c].null_null_count
                = result.value[c].mismatches_count

(***************************************************************************)
(* C10, amended: the mismatching records of a column fall in exactly one   *)
(* of 'Not Null - Not Null', 'Not Null - Null' and 'Null - Not Null', and  *)
(* these three counts sum to Mismatches; 'Null - Null' counts the joined   *)
(* records null on both sides, which are all Matches.                      *)
(***************************************************************************)
Mismatching(c) == {p \in JoinedRecords : ~CellEqual(p, c)}

C10_ThreeCategoriesSumToMismatches ==
    SummaryReturned =>
        \A c \in 1..Len(result.value) :
            /\ result.value[c].not_null_not_null_count =
                  Cardinality({p \in Mismatching(c) : notnull(NewValue(p, c)) /\ notnull(OldValue(p, c))})
            /\ result.value[c].not_null_null_count =
                  Cardinality({p \in Mismatching(c) : notnull(NewValue(p, c)) /\ isnull(OldValue(p, c))})
            /\ result.value[c].null_not_null_count =
                  Cardinality({p \in Mismatching(c) : isnull(NewValue(p, c)) /\ notnull(OldValue(p, c))})
            /\ result.value[c].not_null_not_null_count + result.value[c].not_null_null_count
               + result.value[c].null_not_null_count = result.value[c].mismatches_count
            /\ result.value[c].null_null_count =
                  Cardinality({p \in JoinedRecords : isnull(NewValue(p, c)) /\ isnull(OldValue(p, c))})
            /\ result.value[c].null_null_count <= result.value[c].matches_count

C10_Witness ==
    /\ SummaryReturned
    /\ \E c \in 1..Len(result.value) :
          /\ result.value[c].not_null_not_null_count >= 1
          /\ result.value[c].not_null_null_count >= 1
          /\ result.value[c].null_not_null_count >= 1
          /\ result.value[c].null_null_count >= 1


(***************************************************************************)
(* C11: get_matching_records returns one row per joined record tagged      *)
(* 'both' that is a full match under the null-null-equal rule and no other *)
(* row; a row carries the shared Primary_Key and the new-side value of     *)
(* every non-key column.                                                   *)
(***************************************************************************)
FullMatches == {p \in BothRecords : FullMatch(p)}
MatchingReturned == Returned("get_matching_records")

C11_MatchingRecordsAreFullMatches ==
    MatchingReturned =>
        LET out == result.value
        IN /\ Len(out.rows) = Cardinality(FullMatches)
           /\ Len(out.cols) = Len(df_new.cols)
           /\ out.cols[ColIndex(df_new, Primary_Key)] = Primary_Key
           /\ \A row \in Range(df_new.rows) \cup Range(out.rows) :
                 Count(out.rows, row) =
                     Cardinality({p \in FullMatches : df_new.rows[p[1]] = row})

C11_Witness ==
    /\ MatchingReturned
    /\ Len(result.value.rows) = 2
    /\ \E p \in FullMatches : \E c \in 1..NonKeyCount(df_new) : isnull(NewValue(p, c))
    /\ BothRecords # FullMatches

(***************************************************************************)
(* C12: get_detailed_mismatched_records has one row per joined record that *)
(* is not a full match and none for a full match, and annotates per cell:  *)
(* in the row of a 'both' record a cell whose two values differ (one of    *)
(* them may be null) reads 'O: <old or null>, N: <new or null>', a cell    *)
(* whose values are equal or both null carries the new-side value.         *)
(***************************************************************************)
\* the 'both' records of key k in join order: new rows first, old rows within
BothInOrder(k) ==
    LET N == Len(df_new.rows)
        M == Len(df_old.rows)
    IN SelectSeq([n \in 1..(N * M) |-> <<((n - 1) \div M) + 1, ((n - 1) % M) + 1>>],
                 LAMBDA p : KeyOf(df_new, p[1]) = k /\ KeyOf(df_old, p[2]) = k)
DetailedReturned == Returned("get_detailed_mismatched_records")

C12_AnnotationIsPerCell ==
    DetailedReturned =>
        /\ Len(result.value.rows) = Cardinality(JoinedRecords) - Cardinality(FullMatches)
        /\ \A k \in KeysOf(df_new) \cap KeysOf(df_old) :
              LET outs == RowsOfKey(result.value.rows, 1, k)
                  recs == SelectSeq(BothInOrder(k), LAMBDA p : ~FullMatch(p))
              IN /\ Len(outs) = Len(recs)
                 /\ \A q \in 1..Len(recs) : \A c \in 1..NonKeyCount(df_new) :
                       IF CellEqual(recs[q], c)
                       THEN outs[q][1 + c] = NewValue(recs[q], c)
                       ELSE \E o \in Texts(OldValue(recs[q], c)) :
                            \E n \in Texts(NewValue(recs[q], c)) :
                               outs[q][1 + c] = Str("O: " \o o \o ", N: " \o n)

C12_Witness ==
    /\ DetailedReturned
    /\ \E p \in BothRecords : \E c, d \in 1..NonKeyCount(df_new) :
          /\ isnull(NewValue(p, c)) /\ isnull(OldValue(p, c))
          /\ isnull(NewValue(p, d)) /\ notnull(OldValue(p, d))
    /\ Len(result.value.rows) = 1

(***************************************************************************)
(* C13: with equal non-key column counts compare_columns_and_generate_     *)
(* sheets returns one table per non-key column of the new side; a table    *)
(* has one row per pair of an old and a new row sharing a Primary_Key,     *)
(* with Expected the old value of the column at the same position, Actual  *)
(* the new value, null written 'null', and Comparison                      *)
(* 'E: <expected>, A: <actual>'.                                           *)
(***************************************************************************)
\* the 'both' records in the order of the sheets: old rows first, new rows within
BothByOld ==
    LET N == Len(df_new.rows)
        M == Len(df_old.rows)
    IN SelectSeq([n \in 1..(N * M) |-> <<((n - 1) % N) + 1, ((n - 1) \div N) + 1>>],
                 LAMBDA p : p \in BothRecords)
SheetsReturned == Returned("compare_columns_and_generate_sheets")

C13_OneSheetPerColumn ==
    (SheetsReturned /\ SameSchema) =>
        /\ DOMAIN result.value = Range(non_key_cols(df_new))
        /\ \A c \in 1..NonKeyCount(df_new) :
              LET sheet == result.value[non_key_cols(df_new)[c]]
              IN /\ Len(sheet.rows) = Len(BothByOld)
                 /\ \A q \in 1..Len(BothByOld) :
                       /\ sheet.rows[q][1] = KeyOf(df_new, BothByOld[q][1])
                       /\ \E e \in Texts(OldValue(BothByOld[q], c)) :
                          \E a \in Texts(NewValue(BothByOld[q], c)) :
                             /\ sheet.rows[q][2] = Str(e)
                             /\ sheet.rows[q][3] = Str(a)
                             /\ sheet.rows[q][4] = Str("E: " \o e \o ", A: " \o a)

C13_Witness ==
    /\ SheetsReturned
    /\ Cardinality(DOMAIN result.value) = 2
    /\ \E p \in BothRecords :
          /\ isnull(OldValue(p, 1)) /\ notnull(NewValue(p, 1))
          /\ OldValue(p, 2) # NewValue(p, 2) /\ notnull(OldValue(p, 2))

(***************************************************************************)
(* C14: column alignment is positional.  Whatever the old column names are *)
(* (the new names, a permutation of them, or other names), the rename      *)
(* mapping is a bijection taking the i-th old non-key name to the i-th new *)
(* one, and every view compares the i-th new non-key column with the i-th  *)
(* old one: the metrics count the 'both' records equal at every position,  *)
(* the column summary, the matching records, the mismatched records and    *)
(* the per-column sheets read the values by position.                      *)
(***************************************************************************)
RenameIsPositionalBijection ==
    LET olds == non_key_cols(df_old)
        news == non_key_cols(df_new)
        rm == rename_map(olds, news)
    IN /\ DOMAIN rm = Range(olds)
       /\ {rm[c] : c \in DOMAIN rm} = Range(news)
       /\ \A c, d \in DOMAIN rm : rm[c] = rm[d] => c = d
       /\ \A i \in 1..Len(olds) : rm[olds[i]] = news[i]

C14_AlignmentIsPositional ==
    /\ RenameIsPositionalBijection
    /\ MetricsReturned =>
          result.value.match_record_count =
              Cardinality({p \in BothRecords : \A c \in 1..NonKeyCount(df_new) :
                              Eq(NewValue(p, c), OldValue(p, c))})
    /\ SummaryReturned =>
          \A c \in 1..NonKeyCount(df_new) :
              /\ result.value[c].column_name = non_key_cols(df_new)[c]
              /\ result.value[c].matches_count =
                    Cardinality({p \in JoinedRecords : CellEqual(p, c)})
              /\ result.value[c].null_null_count =
                    Cardinality({p \in JoinedRecords :
                                    isnull(NewValue(p, c)) /\ isnull(OldValue(p, c))})
    /\ C11_MatchingRecordsAreFullMatches
    /\ C12_AnnotationIsPerCell
    /\ C13_OneSheetPerColumn

\* the old names are the new names in reverse order, and a record is equal in
\* its first column only: aligned by name its first column would differ
C14_Witness ==
    /\ DetailedReturned
    /\ NonKeyCount(df_new) = 2
    /\ non_key_cols(df_old) = <<NewColName(2), NewColName(1)>>
    /\ \E p \in BothRecords :
          /\ CellEqual(p, 1) /\ ~CellEqual(p, 2)
          /\ notnull(NewValue(p, 1)) /\ notnull(NewValue(p, 2)) /\ notnull(OldValue(p, 2))
          /\ NewValue(p, 1) # OldValue(p, 2)
    /\ Len(result.value.rows) = 1

(***************************************************************************)
(* C15: get_extra_and_duplicate_records called with a side selector other  *)
(* than exactly 'Old' or 'New' raises the invalid-parameter error and      *)
(* returns neither an Extra_Records nor a Duplicate_Records list; called   *)
(* with 'Old' or 'New' it returns both lists and never raises.             *)
(***************************************************************************)
ExtraDupCalled == call[1] = "get_extra_and_duplicate_records"

C15_InvalidSideSelectorRaises ==
    ExtraDupCalled =>
        IF call[2] \in {"Old", "New"}
        THEN /\ result.status = "ok"
             /\ DOMAIN result.value = {"Extra_Records", "Duplicate_Records"}
        ELSE /\ result.status = "ValueError"
             /\ "value" \notin DOMAIN result

\* the selector is misspelt in lower case while the old Dataset holds both an
\* extra and a duplicated record
C15_Witness ==
    /\ ExtraDupCalled
    /\ call[2] = "old"
    /\ result = ValueError
    /\ OldOnlyRecords # {}
    /\ \E k \in KeysOf(df_old) : Occurrences(df_old, k) > 1

(***************************************************************************)
(* C16: in main, at a table whose old and new Datasets differ in their     *)
(* number of non-key columns, the first core function called raises the    *)
(* schema-mismatch error and no later statement of the loop body runs for  *)
(* that table: no view of it is computed, and no file written for it holds *)
(* a sheet other than the two input Datasets (no Summary, Column_Summary,  *)
(* Matching, Mismatched, Extra, Duplicate or per-column sheet).            *)
(***************************************************************************)
SchemaMismatchAt(i) == NonKeyCount(tables_dict[i][1]) # NonKeyCount(tables_dict[i][2])
SheetNames(f) == [n \in 1..Len(f.sheets) |-> f.sheets[n][1]]
AnalysisReported(i) ==
    \E n \in 1..Len(files) : files[n].table = i /\ files[n].file = ANALYSIS_OUTPUT_FILE

C16_SchemaMismatchEmitsNoView ==
    \A i \in 1..Len(tables_dict) :
        SchemaMismatchAt(i) =>
            /\ table_name = i =>
                  /\ pc \in {"save_filtered", "metrics", "raised"}
                  /\ pc = "raised" =>
                        /\ call = <<"compare_primary_keys_and_rows_by_position">>
                        /\ result = ValueError
            /\ \A n \in 1..Len(files) :
                  files[n].table = i =>
                      /\ files[n].file = FILTERED_OUTPUT_EXCEL_FILE
                      /\ SheetNames(files[n]) = <<<<"NewDataTable">>, <<"OldDataTable">>>>

\* the second table of a run has 3 against 4 non-key columns; the first one was
\* analysed and reported in full
C16_Witness ==
    /\ pc = "raised"
    /\ table_name = 2
    /\ tables_dict[1] = Scenario_OneSided
    /\ tables_dict[2] = Scenario_Schema
    /\ Len(files) = 3
    /\ Len(files[2].sheets) = 11
    /\ "metrics" \in DOMAIN locals

(***************************************************************************)
(* C20: a schema mismatch is fatal to the whole run of main.  At the first *)
(* table with a schema mismatch the run ends with the exception and takes  *)
(* no further step; the analysis reports of all earlier tables are among   *)
(* the files written, and no later table is ever analysed or reported.     *)
(***************************************************************************)
FirstSchemaMismatch(i) ==
    /\ i \in 1..Len(tables_dict)
    /\ SchemaMismatchAt(i)
    /\ \A j \in 1..(i - 1) : ~SchemaMismatchAt(j)

C20_SchemaMismatchEndsRun ==
    \A i \in 1..Len(tables_dict) :
        FirstSchemaMismatch(i) =>
            /\ table_name <= i
            /\ \A n \in 1..Len(files) : files[n].table <= i
            /\ pc # "returned"
            /\ pc = "raised" =>
                  /\ table_name = i
                  /\ \A j \in 1..(i - 1) : AnalysisReported(j)
                  /\ ~ENABLED NextMain

\* the mismatch is in the second of three tables, the other two are sound
C20_Witness ==
    /\ pc = "raised"
    /\ Len(tables_dict) = 3
    /\ FirstSchemaMismatch(2)
    /\ ~SchemaMismatchAt(3)
    /\ AnalysisReported(1)
    /\ tables_dict[3] = Scenario_Duplicate

(***************************************************************************)
(* C18: in the Column Summary the 'Null - Null' count of a column is the   *)
(* number of joined records of the whole outer join whose new and old      *)
(* values of that column are both null.  It is tallied apart from the      *)
(* split: Matches and Mismatches still add up to the number of joined      *)
(* records, the both-null records stay counted among the Matches, and the  *)
(* Mismatches hold none of them.                                           *)
(***************************************************************************)
BothNull(c) == {p \in JoinedRecords : isnull(NewValue(p, c)) /\ isnull(OldValue(p, c))}

C18_NullNullOverWholeJoin ==
    SummaryReturned =>
        \A c \in 1..NonKeyCount(df_new) :
            LET row == result.value[c]
            IN /\ row.null_null_count = Cardinality(BothNull(c))
               /\ row.matches_count + row.mismatches_count = Cardinality(JoinedRecords)
               /\ row.matches_count =
                     Cardinality(BothNull(c)) +
                     Cardinality({p \in JoinedRecords : Eq(NewValue(p, c), OldValue(p, c))})
               /\ row.mismatches_count = Cardinality(Mismatching(c))
               /\ BothNull(c) \cap Mismatching(c) = {}

\* a column with a both-null record, an equal record and a differing record
C18_Witness ==
    /\ SummaryReturned
    /\ \E c \in 1..NonKeyCount(df_new) :
          /\ result.value[c].null_null_count = 1
          /\ result.value[c].matches_count = 2
          /\ result.value[c].mismatches_count = 1

(***************************************************************************)
(* C19: no core function changes its inputs.  In every call, returning or  *)
(* raising, the new and the old Dataset keep their rows, their values and  *)
(* their column names: the positional rename is made on a copy of the old  *)
(* Dataset.                                                                *)
(***************************************************************************)
C19_InputsAreNeverMutated == [][df_new' = df_new /\ df_old' = df_old]_vars

\* the mismatched records were built, annotation written, on Datasets of
\* different column names, and the old Dataset still carries its own names
C19_Witness ==
    /\ DetailedReturned
    /\ Len(result.value.rows) = 1
    /\ \E p \in BothRecords : ~CellEqual(p, 1)
    /\ non_key_cols(df_old) = <<OldColName(1), OldColName(2)>>
    /\ non_key_cols(df_new) = <<NewColName(1), NewColName(2)>>

(***************************************************************************)
(* C21: the extra-record counts of the Metrics agree with the Extra and    *)
(* Duplicate Detector.  Whenever the Metrics are returned, 'OldDataTable   *)
(* Extra Records' is the number of joined records present in the old       *)
(* Dataset only and the number of rows of Extra_Records for 'Old', and     *)
(* 'NewDataTable Extra Records' is the number present in the new Dataset   *)
(* only and the number of rows of Extra_Records for 'New'.                 *)
(***************************************************************************)
ExtraRows(table) == extra_and_duplicate_records(df_new, df_old, table).value.Extra_Records.rows

C21_ExtraCountsAgree ==
    MetricsReturned =>
        /\ result.value.old_extra_records = Cardinality(OldOnlyRecords)
        /\ result.value.old_extra_records = Len(ExtraRows("Old"))
        /\ result.value.new_extra_records = Cardinality(NewOnlyRecords)
        /\ result.value.new_extra_records = Len(ExtraRows("New"))

\* the old Dataset has one record of its own, the new one has none and holds a
\* key twice
C21_Witness ==
    /\ MetricsReturned
    /\ result.value.old_extra_records = 1
    /\ result.value.new_extra_records = 0
    /\ \E k \in KeysOf(df_old) : Occurrences(df_new, k) = 2

(***************************************************************************)
(* C22: every analysis report handed to the report writer has one entry    *)
(* for each of the ten fixed sheets and one for each non-key column, that  *)
(* is 10 + (number of non-key columns) entries, the fixed sheets first and *)
(* under their names, whatever the column names are.                       *)
(* The code stores a comparison sheet under its sanitized, truncated       *)
(* column name in the same dictionary, so a sheet whose name is taken      *)
(* replaces the earlier one.                                               *)
(***************************************************************************)
FixedSheetNames ==
    <<<<"OldDataTable">>, <<"NewDataTable">>, <<"Summary">>, <<"Column_Summary">>,
      <<"Matching_Records">>, <<"Mismatched_Records">>, <<"Old_Table_Extra_Records">>,
      <<"New_Table_Extra_Records">>, <<"Old_Table_Duplicate_Records">>,
      <<"New_Table_Duplicate_Records">>>>

C22_OneEntryPerSheet ==
    \A n \in 1..Len(files) :
        files[n].file = ANALYSIS_OUTPUT_FILE =>
            LET new == tables_dict[files[n].table][1]
                old == tables_dict[files[n].table][2]
                sheets == files[n].sheets
            IN /\ Len(sheets) = Len(FixedSheetNames) + NonKeyCount(new)
               /\ \A i \in 1..Len(FixedSheetNames) : sheets[i][1] = FixedSheetNames[i]
               /\ sheets[3][2] = <<metrics(new, old).value>>
               /\ \A c \in 1..NonKeyCount(new) :
                     sheets[Len(FixedSheetNames) + c][2] =
                         comparison_sheets(new, old).value[non_key_cols(new)[c]]

(***************************************************************************)
(* C23: the columns of the table get_matching_records returns are          *)
(* Primary_Key followed by the non-key column names of the new Dataset,    *)
(* unchanged and in its order, whatever those names are.                   *)
(* The code keeps the merged columns that end in '_new' and removes every  *)
(* '_new' from them, and leaves Primary_Key where the new Dataset has it.  *)
(***************************************************************************)
C23_MatchingColumnsAreNewNames ==
    MatchingReturned => result.value.cols = <<Primary_Key>> \o non_key_cols(df_new)

(***************************************************************************)
(* C24: the composite Primary_Key identifies the key tuple.  Two rows of   *)
(* the fetched Datasets receive the same Primary_Key only if they hold the *)
(* same value in every configured key column.                              *)
(* The code joins the texts of the key values with '_': a value holding    *)
(* '_' shifts the boundary between two columns, and a number and the text  *)
(* of its digits give the same key.                                        *)
(***************************************************************************)
KeyTuple(df, r, pk_cols) == [i \in 1..Len(pk_cols) |-> df.rows[r][ColIndex(df, pk_cols[i])]]
FetchedRows ==
    {<<df_new, r, locals.new_pk_cols>> : r \in 1..Len(df_new.rows)} \cup
    {<<df_old, r, locals.old_pk_cols>> : r \in 1..Len(df_old.rows)}

C24_PrimaryKeyIdentifiesTuple ==
    pc = "table_data" =>
        \A a, b \in FetchedRows :
            KeyOf(a[1], a[2]) = KeyOf(b[1], b[2]) =>
                KeyTuple(a[1], a[2], a[3]) = KeyTuple(b[1], b[2], b[3])

====
